---- MODULE Spec2Model ----
(***************************************************************************)
(* Model of dictate's vector index layer (src/src/dictate/vector_store.py):*)
(* the text chunker, and add_transcript / remove_transcript against a      *)
(* ChromaDB collection.  Texts are sequences of one-character strings.     *)
(***************************************************************************)
EXTENDS Integers, Sequences, FiniteSets, TLC

VARIABLES
    \* ---- chunk_text, run one loop iteration at a time ----
    text,           \* argument text
    chunk_size,     \* argument chunk_size
    chunk_overlap,  \* argument chunk_overlap
    start,          \* local start
    chunks,         \* local chunks (the list returned)
    windows,        \* history: the [start, end) slice bounds of every iteration
    pc,             \* "idle" | "entry" | "loop" | "done"
    \* ---- VectorStoreManager and its environment ----
    fs,             \* file system: absolute path string -> index into RawContents (0 = no file)
    collection,     \* self.collection: chunk id -> [document, metadata, embedding]
    now,            \* datetime.now(), as a tick counter
    prev,           \* history: self.collection before the last operation
    last,           \* history: the last operation, its inputs and its result
                    \* (fail: the store call that raised in it, or "none")
    procs           \* the add_transcript calls that run concurrently, each with its
                    \* position and its locals

chunkVars == <<text, chunk_size, chunk_overlap, start, chunks, windows, pc>>
indexVars == <<fs, collection, now, prev, last, procs>>
vars == <<text, chunk_size, chunk_overlap, start, chunks, windows, pc,
          fs, collection, now, prev, last, procs>>

-----------------------------------------------------------------------------
(* Bounds of the chunker check *)
MaxLen == 5
MaxSize == 3
\* the loop is followed for at most this many iterations; a run that ends takes at most Len(text)
MaxIter == MaxLen + 2

Alphabet == {"a", " ", "\n"}

Min(S) == CHOOSE x \in S : \A y \in S : x <= y
Max(S) == CHOOSE x \in S : \A y \in S : x >= y

\* str.strip() strips these; str.rfind(' ') looks for the space only
IsWs(c) == c \in {" ", "\n"}

\* Python s.strip()
strip(s) ==
    LET keep == {i \in 1..Len(s) : ~IsWs(s[i])}
    IN  IF keep = {} THEN <<>> ELSE SubSeq(s, Min(keep), Max(keep))

\* Python s[lo:hi] for 0 <= lo, 0 <= hi (hi is clipped to len(s))
slice(s, lo, hi) ==
    LET h == IF hi < Len(s) THEN hi ELSE Len(s)
    IN  IF lo >= h THEN <<>> ELSE SubSeq(s, lo + 1, h)

\* Python s.rfind(' ', lo, hi): highest 0-based index in [lo, hi) holding a space, or -1
rfind_space(s, lo, hi) ==
    LET h == IF hi < Len(s) THEN hi ELSE Len(s)
        hits == {i \in lo..(h - 1) : s[i + 1] = " "}
    IN  IF hits = {} THEN -1 ELSE Max(hits)

\* mutant of window_end: the window is one character longer
window_end_over(s, size, st) ==
    st + size + 1

\* lines 72-79: the end of the window that starts at st
window_end(s, size, st) ==
    LET e == st + size
        last_space == rfind_space(s, st, e)
    IN  IF e < Len(s) /\ last_space > st THEN last_space ELSE e

\* mutant of next_start: the next window begins one character past the previous end
next_start_gap(e, overlap) ==
    e + 1

\* lines 86-88: the next start
next_start(e, overlap) ==
    IF e - overlap <= 0 THEN e ELSE e - overlap

\* mutant of emit: the stripped slice is appended without the "if chunk" test
emit_always(cs, s, st, e) ==
    Append(cs, strip(slice(s, st, e)))

\* lines 81-83: chunks after the strip / append of one iteration
emit(cs, s, st, e) ==
    LET chunk == strip(slice(s, st, e))
    IN  IF chunk # <<>> THEN Append(cs, chunk) ELSE cs

\* lines 68-90 as a function; defined on the texts on which the loop ends
RECURSIVE chunk_loop(_, _, _, _, _)
chunk_loop(s, size, overlap, st, cs) ==
    IF st < Len(s)
    THEN LET e == window_end(s, size, st)
         IN  chunk_loop(s, size, overlap, next_start(e, overlap), emit(cs, s, st, e))
    ELSE cs

\* lines 54-90
chunk_text(s, size, overlap) ==
    IF Len(s) <= size THEN <<s>> ELSE chunk_loop(s, size, overlap, 0, <<>>)

-----------------------------------------------------------------------------
(* Paths, files and contents *)

\* a pathlib.Path: anchored (starts at the root) or relative, and its components
CwdParts == <<"w">>
RelN   == [anchored |-> FALSE, parts |-> <<"n">>]
AbsN   == [anchored |-> TRUE,  parts |-> <<"w", "n">>]
AbsN0  == [anchored |-> TRUE,  parts |-> <<"w", "n_0">>]
Paths  == {RelN, AbsN, AbsN0}

RECURSIVE join(_)
join(parts) ==
    IF Len(parts) = 1 THEN parts[1] ELSE parts[1] \o "/" \o join(Tail(parts))

\* str(path)
str(p) == IF p.anchored THEN "/" \o join(p.parts) ELSE join(p.parts)

\* path.absolute(): the working directory is prepended to a relative path
absolute(p) ==
    IF p.anchored THEN p ELSE [anchored |-> TRUE, parts |-> CwdParts \o p.parts]

\* path.name
name(p) == p.parts[Len(p.parts)]

FileIds == {str(absolute(p)) : p \in Paths}

\* texts of n characters, a space after every six letters
Prose(n) == [i \in 1..n |-> IF i % 7 = 0 THEN " " ELSE "a"]

\* what a transcript file may hold, as read by f.read()
RawContents ==
    << <<" ", "h", "i", "\n">>,      \* one chunk once stripped
       Prose(700),                   \* two chunks
       <<" ", "\n">> >>              \* strips to the empty text

NContents == Len(RawContents)

DefaultChunkSize == 500
DefaultChunkOverlap == 50

\* mutant of Content: the text is used as read, without strip()
Content_unstripped == [k \in 1..NContents |-> RawContents[k]]

\* line 109: f.read().strip()
Content == [k \in 1..NContents |-> strip(RawContents[k])]

\* line 117: hashlib.md5(content.encode()).hexdigest(); equal texts have equal
\* digests and the digests of the different texts of Content differ
md5(c) == Min({k \in 1..NContents : Content[k] = c})

\* line 128: self.chunk_text(content)
ChunksOf == [k \in 1..NContents |->
                chunk_text(Content[k], DefaultChunkSize, DefaultChunkOverlap)]

MaxChunks == Max({Len(ChunksOf[k]) : k \in 1..NContents})

-----------------------------------------------------------------------------
(* The embedding provider and the store *)

\* what transcriber.get_embedding does on the call for chunk i:
\* returns a vector, returns None (GeminiTranscriber swallows its errors), or raises
Outcomes == {"vec", "none", "raise"}
Providers == [0..(MaxChunks - 1) -> Outcomes]

\* number of clock ticks followed
MaxNow == 2

\* mutant of chunk_id: the id is the chunk index alone, whatever the file
chunk_id_shared(file_id, i) ==
    "c_" \o ToString(i)

\* line 143: f"{file_id}_{i}"
chunk_id(file_id, i) ==
    file_id \o "_" \o ToString(i)

\* lines 147-155
metadata(p, i, n, content_hash, chunk, t) ==
    [source_file  |-> str(p),
     file_name    |-> name(p),
     chunk_index  |-> i,
     total_chunks |-> n,
     content_hash |-> content_hash,
     added_date   |-> t,
     chunk_length |-> Len(chunk)]

\* mutant of collect: the embedding is put in front of the list
collect_front(embeddings, embedding) == <<embedding>> \o embeddings

\* line 136: embeddings.append(embedding)
collect(embeddings, embedding) == Append(embeddings, embedding)

\* lines 134-139: the loop over chunks, from chunk i on.  log is the sequence of
\* get_embedding calls made so far: the chunk passed and what the call did
RECURSIVE embed_loop(_, _, _, _, _)
embed_loop(provider, n, i, embeddings, log) ==
    IF i >= n THEN [isNone |-> FALSE, list |-> embeddings, log |-> log]
    ELSE LET called == Append(log, [chunk |-> i, outcome |-> provider[i]])
         IN  IF provider[i] = "raise"
             THEN [isNone |-> TRUE, list |-> <<>>, log |-> called]
             ELSE embed_loop(provider, n, i + 1,
                             collect(embeddings, IF provider[i] = "vec"
                                                 THEN "vec" \o ToString(i) ELSE "None"),
                             called)

\* lines 130-140 with the calls they made
embed_run(has, provider, n) ==
    IF ~has THEN [isNone |-> TRUE, list |-> <<>>, log |-> <<>>]
    ELSE embed_loop(provider, n, 0, <<>>, <<>>)

\* lines 131-140: embeddings; isNone when no provider was given or a call raised,
\* otherwise the list of what the calls returned (a vector, or None)
embed_all(has, provider, n) ==
    [isNone |-> embed_run(has, provider, n).isNone,
     list   |-> embed_run(has, provider, n).list]

\* number of get_embedding calls made by lines 132-137
embed_calls(has, provider, n) ==
    Len(embed_run(has, provider, n).log)

\* collection.get(ids=[id])
get_by_id(coll, id) == {x \in DOMAIN coll : x = id}

\* mutant of get_where_source_file: the filter compares with the absolute path
get_where_file_id(coll, p) ==
    {x \in DOMAIN coll : coll[x].metadata.source_file = str(absolute(p))}

\* lines 320-322: collection.get(where={"source_file": {"$eq": str(transcript_path)}})
get_where_source_file(coll, p) ==
    {x \in DOMAIN coll : coll[x].metadata.source_file = str(p)}

\* mutant of upsert: the collection is replaced by the records written
upsert_only(coll, new) == new

\* mutant of upsert: records whose id is already stored are left as they are
upsert_keep_existing(coll, new) ==
    [x \in DOMAIN coll \cup DOMAIN new |-> IF x \in DOMAIN coll THEN coll[x] ELSE new[x]]

\* lines 159-171: collection.upsert(ids, documents, metadatas[, embeddings]):
\* insert if absent, overwrite if present
upsert(coll, new) ==
    [x \in DOMAIN coll \cup DOMAIN new |-> IF x \in DOMAIN new THEN new[x] ELSE coll[x]]

\* mutant of delete: only one of the matched ids is deleted
delete_one(coll, ids) ==
    [x \in DOMAIN coll \ {CHOOSE y \in ids : TRUE} |-> coll[x]]

\* line 325: collection.delete(ids=results['ids'])
delete(coll, ids) ==
    [x \in DOMAIN coll \ ids |-> coll[x]]

-----------------------------------------------------------------------------
(* VectorStoreManager.add_transcript and remove_transcript *)

Outcome(ret, coll, stage, calls, n) ==
    [ret |-> ret, coll |-> coll, stage |-> stage, calls |-> calls, n |-> n]

\* mutant of caught: the handler reports success
caught_true(coll, calls, n) ==
    Outcome(TRUE, coll, "error", calls, n)

\* lines 176-178 and 332-334: except Exception: print, return False
caught(coll, calls, n) ==
    Outcome(FALSE, coll, "error", calls, n)

\* lines 143-171: the records the upsert writes for the chunks cs of a text
\* whose digest is content_hash
new_records_of(p, file_id, cs, content_hash, embeddings, t) ==
    LET n == Len(cs)
        ids == {chunk_id(file_id, i) : i \in 0..(n - 1)}
    IN  [x \in ids |->
            LET i == CHOOSE j \in 0..(n - 1) : chunk_id(file_id, j) = x
            IN  [document  |-> cs[i + 1],
                 metadata  |-> metadata(p, i, n, content_hash, cs[i + 1], t),
                 embedding |-> IF embeddings.isNone THEN "default"
                               ELSE embeddings.list[i + 1]]]

\* lines 143-171 for the file content k
new_records(p, file_id, k, embeddings, t) ==
    new_records_of(p, file_id, ChunksOf[k], md5(Content[k]), embeddings, t)

\* lines 120-125: a record with id file_id is stored and carries the digest of
\* the content read
up_to_date(coll, file_id, k) ==
    LET existing == get_by_id(coll, file_id)
    IN  /\ existing # {}
        /\ coll[CHOOSE x \in existing : TRUE].metadata.content_hash = md5(Content[k])

\* lines 159-166: the store rejects an embeddings list that holds None (ValueError)
rejected(embeddings) ==
    /\ ~embeddings.isNone
    /\ \E i \in 1..Len(embeddings.list) : embeddings.list[i] = "None"

\* lines 102-178.  fail names the store call that raises ("get", "upsert") or "none";
\* has says whether a transcriber was passed, provider what its calls do
add_transcript(coll, files, t, p, has, provider, fail) ==
    LET file_id == str(absolute(p))
        k == files[file_id]
    IN  IF k = 0 THEN Outcome(FALSE, coll, "notfound", 0, 0)
        ELSE IF Content[k] = <<>> THEN Outcome(FALSE, coll, "empty", 0, 0)
        ELSE IF fail = "get" THEN caught(coll, 0, 0)
        ELSE IF up_to_date(coll, file_id, k)
             THEN Outcome(TRUE, coll, "uptodate", 0, 0)
        ELSE LET n == Len(ChunksOf[k])
                 embeddings == embed_all(has, provider, n)
                 calls == embed_calls(has, provider, n)
             IN  IF rejected(embeddings)
                 THEN caught(coll, calls, n)
                 ELSE IF fail = "upsert" THEN caught(coll, calls, n)
                 ELSE Outcome(TRUE, upsert(coll, new_records(p, file_id, k, embeddings, t)),
                              "upserted", calls, n)

\* lines 316-334.  fail names the store call that raises ("get", "delete") or "none"
remove_transcript(coll, p, fail) ==
    LET ids == get_where_source_file(coll, p)
    IN  IF fail = "get" THEN caught(coll, 0, 0)
        ELSE IF ids # {}
             THEN IF fail = "delete" THEN caught(coll, 0, 0)
                  ELSE Outcome(TRUE, delete(coll, ids), "removed", 0, Cardinality(ids))
        ELSE Outcome(FALSE, coll, "nomatch", 0, 0)

AllVec == [i \in 0..(MaxChunks - 1) |-> "vec"]

\* what the embedding loop met among the calls it made: "ok", "none" or "raise"
embed_result(has, provider, n) ==
    IF ~has THEN "ok"
    ELSE IF \E i \in 0..(n - 1) : provider[i] = "raise" THEN "raise"
    ELSE IF \E i \in 0..(n - 1) : provider[i] = "none" THEN "none"
    ELSE "ok"

NoOp ==
    [op |-> "none", path |-> RelN, ret |-> FALSE, stage |-> "none", calls |-> 0, n |-> 0,
     has |-> FALSE, embed |-> "ok", fail |-> "none", log |-> <<>>]

\* the callers that may run add_transcript at the same time
Procs == {1, 2}

\* the locals of one add_transcript call: transcript_path, the transcriber and what
\* its get_embedding does, the content read (k), embeddings, the metadata clock
\* reading (t), the records handed to upsert, and the value returned
Call(at, p, has, provider) ==
    [pc |-> at, path |-> p, has |-> has, provider |-> provider, k |-> 0,
     embeddings |-> [isNone |-> TRUE, list |-> <<>>], t |-> 0,
     records |-> [x \in {} |-> 0], ret |-> FALSE, stage |-> "none"]

NoCalls == [i \in Procs |-> Call("idle", RelN, FALSE, AllVec)]

IndexInit ==
    /\ procs = NoCalls
    /\ fs = [f \in FileIds |-> 0]
    /\ collection = [x \in {} |-> 0]
    /\ now = 0
    /\ prev = [x \in {} |-> 0]
    /\ last = NoOp

ChunkIdle ==
    /\ text = <<>>
    /\ chunk_size = DefaultChunkSize
    /\ chunk_overlap = DefaultChunkOverlap
    /\ start = 0
    /\ chunks = <<>>
    /\ windows = <<>>
    /\ pc = "idle"

Init == IndexInit /\ ChunkIdle

\* a transcript file is written, rewritten or deleted (cli.py writes them)
WriteFile(f, k) ==
    /\ fs[f] # k
    /\ fs' = [fs EXCEPT ![f] = k]
    /\ prev' = collection
    /\ last' = [NoOp EXCEPT !.op = "write"]
    /\ UNCHANGED <<collection, now>>
    /\ UNCHANGED procs
    /\ UNCHANGED chunkVars

\* the provider is asked about the chunks of the file only, and about none after
\* the first call that raises
CalledOnly(files, p, has, provider) ==
    LET k == files[str(absolute(p))]
        n == IF k = 0 THEN 0 ELSE Len(ChunksOf[k])
    IN  \A i \in 0..(MaxChunks - 1) :
            (~has \/ i >= n \/ \E j \in 0..(i - 1) : provider[j] = "raise")
                => provider[i] = "vec"

AddTranscript(p, has, provider, fail) ==
    /\ now < MaxNow
    /\ CalledOnly(fs, p, has, provider)
    /\ LET r == add_transcript(collection, fs, now + 1, p, has, provider, fail)
       IN  /\ collection' = r.coll
           /\ now' = IF r.stage = "upserted" THEN now + 1 ELSE now
           /\ last' = [op |-> "add", path |-> p, ret |-> r.ret, stage |-> r.stage,
                       calls |-> r.calls, n |-> r.n, has |-> has,
                       embed |-> embed_result(has, provider, r.n),
                       log |-> embed_run(has, provider, r.n).log,
                       fail |-> IF r.stage = "error" THEN fail ELSE "none"]
    /\ prev' = collection
    /\ UNCHANGED fs
    /\ UNCHANGED procs
    /\ UNCHANGED chunkVars

RemoveTranscript(p, fail) ==
    /\ LET r == remove_transcript(collection, p, fail)
       IN  /\ collection' = r.coll
           /\ last' = [NoOp EXCEPT !.op = "remove", !.path = p, !.ret = r.ret,
                                   !.stage = r.stage, !.n = r.n,
                                   !.fail = IF r.stage = "error" THEN fail ELSE "none"]
    /\ prev' = collection
    /\ UNCHANGED <<fs, now>>
    /\ UNCHANGED procs
    /\ UNCHANGED chunkVars

\* the store answers every call (fail = "none"): sequential use of a healthy store
Next ==
    \/ \E f \in FileIds, k \in 0..NContents : WriteFile(f, k)
    \/ \E p \in Paths, has \in BOOLEAN, provider \in Providers :
            AddTranscript(p, has, provider, "none")
    \/ \E p \in Paths : RemoveTranscript(p, "none")

Spec == Init /\ [][Next]_vars

\* the same operations against a store whose calls may raise
NextFail ==
    \/ \E f \in FileIds, k \in 0..NContents : WriteFile(f, k)
    \/ \E p \in Paths, has \in BOOLEAN, provider \in Providers,
          fail \in {"none", "get", "upsert"} : AddTranscript(p, has, provider, fail)
    \/ \E p \in Paths, fail \in {"none", "get", "delete"} : RemoveTranscript(p, fail)

SpecFail == Init /\ [][NextFail]_vars

-----------------------------------------------------------------------------
(* chunk_text as a state machine *)

Texts == UNION {[1..n -> Alphabet] : n \in 0..MaxLen}

ChunkInit ==
    /\ text \in Texts
    /\ chunk_size \in 1..MaxSize
    /\ chunk_overlap \in 0..(chunk_size - 1)
    /\ start = 0
    /\ chunks = <<>>
    /\ windows = <<>>
    /\ pc = "entry"
    /\ IndexInit

\* mutant of ChunkShort: the short text is returned trimmed
ChunkShort_strip ==
    /\ pc = "entry"
    /\ Len(text) <= chunk_size
    /\ chunks' = <<strip(text)>>
    /\ windows' = <<[lo |-> 0, hi |-> Len(text), emitted |-> TRUE]>>
    /\ pc' = "done"
    /\ UNCHANGED <<text, chunk_size, chunk_overlap, start>>
    /\ UNCHANGED indexVars

\* lines 65-66
ChunkShort ==
    /\ pc = "entry"
    /\ Len(text) <= chunk_size
    /\ chunks' = <<text>>
    /\ windows' = <<[lo |-> 0, hi |-> Len(text), emitted |-> TRUE]>>
    /\ pc' = "done"
    /\ UNCHANGED <<text, chunk_size, chunk_overlap, start>>
    /\ UNCHANGED indexVars

\* lines 68-69
ChunkEnter ==
    /\ pc = "entry"
    /\ Len(text) > chunk_size
    /\ chunks' = <<>>
    /\ start' = 0
    /\ pc' = "loop"
    /\ UNCHANGED <<text, chunk_size, chunk_overlap, windows>>
    /\ UNCHANGED indexVars

\* lines 71-88: one iteration of the while loop
ChunkIter ==
    /\ pc = "loop"
    /\ start < Len(text)
    /\ Len(windows) < MaxIter
    /\ LET e == window_end(text, chunk_size, start)
       IN  /\ chunks' = emit(chunks, text, start, e)
           /\ windows' = Append(windows, [lo |-> start, hi |-> e,
                                           emitted |-> strip(slice(text, start, e)) # <<>>])
           /\ start' = next_start(e, chunk_overlap)
    /\ UNCHANGED <<text, chunk_size, chunk_overlap, pc>>
    /\ UNCHANGED indexVars

\* lines 71, 90: the loop condition fails and the list is returned
ChunkReturn ==
    /\ pc = "loop"
    /\ start >= Len(text)
    /\ pc' = "done"
    /\ UNCHANGED <<text, chunk_size, chunk_overlap, start, chunks, windows>>
    /\ UNCHANGED indexVars

ChunkNext == ChunkShort \/ ChunkEnter \/ ChunkIter \/ ChunkReturn

SpecChunk == ChunkInit /\ [][ChunkNext]_vars

-----------------------------------------------------------------------------
(* Properties of add_transcript / remove_transcript, checked under Spec *)

\* the id scheme of the data model: sourceFileId + "_" + index
IdOf(f, i) == f \o "_" \o ToString(i)

\* the chunk indices stored for the file with canonical path f
Indices(coll, f) == {i \in 0..MaxChunks : IdOf(f, i) \in DOMAIN coll}

LastFile == str(absolute(last.path))

\* the collection holds exactly the chunks an add of path p writes for the
\* present content of the file
IndexedUnchanged(coll, p) ==
    LET f == str(absolute(p))
        k == fs[f]
    IN  /\ k # 0
        /\ Content[k] # <<>>
        /\ Indices(coll, f) = 0..(Len(ChunksOf[k]) - 1)
        /\ \A i \in 0..(Len(ChunksOf[k]) - 1) :
              /\ coll[IdOf(f, i)].document = ChunksOf[k][i + 1]
              /\ coll[IdOf(f, i)].metadata.content_hash = md5(Content[k])
              /\ coll[IdOf(f, i)].metadata.source_file = str(p)

\* C1: a second add_transcript(path) on unchanged content makes no embedding
\* call, performs no upsert, returns true and leaves the stored chunks unchanged.
C1_IdempotentReAdd ==
    (last.op = "add" /\ IndexedUnchanged(prev, last.path)) =>
        /\ last.calls = 0
        /\ last.stage # "upserted"
        /\ last.ret
        /\ collection = prev

\* C2: for every source file the collection holds no chunk of it, or exactly N
\* chunks with indices 0..N-1, one content_hash and total_chunks = N.
C2_TranscriptRecord ==
    \A f \in FileIds :
        LET idx == Indices(collection, f)
            N == Cardinality(idx)
        IN  idx # {} =>
                /\ idx = 0..(N - 1)
                /\ \A i \in idx :
                      /\ collection[IdOf(f, i)].metadata.total_chunks = N
                      /\ collection[IdOf(f, i)].metadata.content_hash =
                             collection[IdOf(f, 0)].metadata.content_hash

C4_RemoveCorrectness ==
    (last.op = "remove" /\ last.ret) =>
        \A x \in DOMAIN collection :
            collection[x].metadata.source_file # str(last.path)

\* a remove that returned true after a shrinking re-add: it matched chunks of
\* two different content hashes
C4_Witness ==
    /\ last.op = "remove"
    /\ last.ret
    /\ \E x, y \in DOMAIN prev :
          /\ prev[x].metadata.source_file = str(last.path)
          /\ prev[y].metadata.source_file = str(last.path)
          /\ prev[x].metadata.content_hash # prev[y].metadata.content_hash

\* C5: remove_transcript(path) returns true iff some stored chunk has metadata
\* source_file = path, and then deletes exactly those chunks; otherwise it
\* returns false and leaves the collection unchanged.
C5_RemoveIffMatched ==
    last.op = "remove" =>
        LET matched == {x \in DOMAIN prev : prev[x].metadata.source_file = str(last.path)}
        IN  /\ last.ret <=> matched # {}
            /\ DOMAIN collection = DOMAIN prev \ matched
            /\ \A x \in DOMAIN collection : collection[x] = prev[x]

\* a remove by the relative path that returned true and left behind a chunk the
\* same file had been given under its absolute path
C5_Witness ==
    /\ last.op = "remove"
    /\ last.ret
    /\ ~last.path.anchored
    /\ Indices(prev, LastFile) = {0, 1}
    /\ Indices(collection, LastFile) = {1}

\* C9: when a provider is supplied and embedding a chunk fails (the provider
\* raises, or returns no vector), add_transcript still upserts every chunk of
\* the file, without precomputed vectors, and returns true.
C9_EmbeddingFallback ==
    (/\ last.op = "add"
     /\ last.has
     /\ last.embed \in {"none", "raise"}
     /\ last.stage \in {"upserted", "error"})
    => /\ last.ret
       /\ \A i \in 0..(last.n - 1) :
             /\ IdOf(LastFile, i) \in DOMAIN collection
             /\ collection[IdOf(LastFile, i)].embedding = "default"
             /\ collection[IdOf(LastFile, i)].document = ChunksOf[fs[LastFile]][i + 1]

\* C10: every stored chunk has id = its metadata source_file, "_", its metadata
\* chunk_index, whatever path representation was passed to add_transcript.
C10_IdScheme ==
    \A x \in DOMAIN collection :
        x = IdOf(collection[x].metadata.source_file, collection[x].metadata.chunk_index)

-----------------------------------------------------------------------------
(* Properties of chunk_text, checked under SpecChunk *)

\* C6: chunk_text terminates for every text and every 0 <= overlap < maxSize:
\* the window start strictly increases from each loop iteration to the next
\* (also when the end was snapped back to a space close to start).
C6_StartStrictlyIncreases ==
    \A k \in 1..(Len(windows) - 1) : windows[k + 1].lo > windows[k].lo

\* C7: when chunk_text returns, every non-whitespace character position lies in
\* the window [start, end) of an emitted chunk, consecutive windows leave no gap
\* and the last window reaches len(text).
C7_Coverage ==
    pc = "done" =>
        /\ \A i \in 0..(Len(text) - 1) :
              ~IsWs(text[i + 1]) =>
                  \E k \in 1..Len(windows) :
                      windows[k].emitted /\ windows[k].lo <= i /\ i < windows[k].hi
        /\ \A k \in 1..(Len(windows) - 1) : windows[k + 1].lo <= windows[k].hi
        /\ windows[1].lo = 0
        /\ windows[Len(windows)].hi >= Len(text)

\* a returned run of three or more windows, one of them snapped back to a space
\* and one of them a hard cut followed by a non-whitespace character
C7_Witness ==
    /\ pc = "done"
    /\ Len(windows) >= 3
    /\ \E k \in 1..Len(windows) : windows[k].hi < windows[k].lo + chunk_size
    /\ \E k \in 1..Len(windows) :
          /\ windows[k].hi = windows[k].lo + chunk_size
          /\ windows[k].hi < Len(text)
          /\ ~IsWs(text[windows[k].hi + 1])

Blank(s) == strip(s) = <<>>

\* C8 as stated: for every input text (the empty and the whitespace-only text
\* included) no element of the returned sequence is empty or whitespace-only.
C8_NoEmptyChunk_Original ==
    \A k \in 1..Len(chunks) : ~Blank(chunks[k])

\* C8 amended: no element of the sequence chunk_text builds is empty or
\* whitespace-only, except that a text with len(text) <= maxSize that is itself
\* empty or whitespace-only is returned unchanged as the single element.
C8_NoEmptyChunk ==
    (Len(text) > chunk_size \/ ~Blank(text)) =>
        \A k \in 1..Len(chunks) : ~Blank(chunks[k])

\* a returned run of the loop in which a whitespace-only window was skipped
C8_Witness ==
    /\ pc = "done"
    /\ Len(text) > chunk_size
    /\ Len(chunks) >= 1
    /\ \E k \in 1..Len(windows) : ~windows[k].emitted

-----------------------------------------------------------------------------
(* Further properties of add_transcript / remove_transcript, checked under Spec *)

\* C11: the canonical absolute path is the join key for removal: once a file
\* has been added, remove_transcript with any path denoting that file returns
\* true and leaves no chunk of the file in the collection.
C11_CanonicalRemove ==
    (last.op = "remove" /\ Indices(prev, LastFile) # {}) =>
        /\ last.ret
        /\ Indices(collection, LastFile) = {}

\* C12: add_transcript on a missing file, or on a file whose content strips to
\* empty, returns false, makes no embedding call and no store write, and leaves
\* the collection unchanged.
C12_MissingOrEmpty ==
    (/\ last.op = "add"
     /\ (fs[LastFile] = 0 \/ Blank(RawContents[fs[LastFile]])))
    => /\ ~last.ret
       /\ last.calls = 0
       /\ last.stage # "upserted"
       /\ collection = prev

\* an add with a transcriber on a whitespace-only file whose chunks were indexed
\* before the file was blanked
C12_Witness ==
    /\ last.op = "add"
    /\ last.has
    /\ fs[LastFile] # 0
    /\ Blank(RawContents[fs[LastFile]])
    /\ Indices(prev, LastFile) # {}

-----------------------------------------------------------------------------
(* Store failures, checked under SpecFail *)

\* C13: when a store call (lookup, upsert or delete) fails during add_transcript
\* or remove_transcript, the operation returns false and the collection is
\* exactly as it was before the call.
C13_FailSoftMutation ==
    (last.op \in {"add", "remove"} /\ last.stage = "error") =>
        /\ ~last.ret
        /\ collection = prev

\* an add whose upsert raised after the embedding calls were made, on a
\* collection that already held chunks of the file
C13_Witness ==
    /\ last.op = "add"
    /\ last.fail = "upsert"
    /\ last.stage = "error"
    /\ last.calls > 0
    /\ Indices(prev, LastFile) # {}


-----------------------------------------------------------------------------
(* VectorStoreManager.search_similar *)

\* distances and similarities are counted in units of 1/Scale, thresholds too
Scale == 2
\* largest distance the store reports, in units of 1/Scale
MaxDist == 3
\* largest limit (n_results) asked for
MaxLimit == 3

Distances == 0..MaxDist
Thresholds == 0..Scale

\* line 223: similarity = 1.0 - distance
similarity_of(distance) == Scale - distance

\* mutant of keep: a neighbour exactly at the threshold is dropped
keep_strict(similarity, threshold) == similarity > threshold

\* line 225: if similarity >= threshold
keep(similarity, threshold) == similarity >= threshold

\* lines 226-232: the result built for neighbour i of the store's answer
result_of(coll, neighbour) ==
    [id         |-> neighbour.id,
     content    |-> coll[neighbour.id].document,
     metadata   |-> coll[neighbour.id].metadata,
     similarity |-> similarity_of(neighbour.distance),
     distance   |-> neighbour.distance]

\* mutant of append_result: the result is put in front of the list
append_result_front(search_results, result) == <<result>> \o search_results

\* line 233: search_results.append(result)
append_result(search_results, result) == Append(search_results, result)

\* lines 217-235: the loop over results['ids'][0], from neighbour i on
RECURSIVE filter_from(_, _, _, _, _)
filter_from(coll, answer, threshold, i, search_results) ==
    IF i > Len(answer) THEN search_results
    ELSE filter_from(coll, answer, threshold, i + 1,
            IF keep(similarity_of(answer[i].distance), threshold)
            THEN append_result(search_results, result_of(coll, answer[i]))
            ELSE search_results)

SearchOutcome(results, mode, stage) ==
    [results |-> results, mode |-> mode, stage |-> stage]

\* mutant of search_caught: the handler returns a list holding an error marker
search_caught_marker(mode) ==
    SearchOutcome(<<[id |-> "error"]>>, mode, "error")

\* lines 237-239: except Exception: print, return []
search_caught(mode) ==
    SearchOutcome(<<>>, mode, "error")

\* lines 192-239.  has: a transcriber was passed; embedded: what its get_embedding
\* does for the query; answer: the neighbours the store's query returns, nearest
\* first as the store orders them; fail: the store's query raises.
\* mode is the query that was issued: "vector" (query_embeddings), "text"
\* (query_texts) or "none"
search_similar(coll, threshold, has, embedded, fail, answer) ==
    IF has /\ embedded = "raise" THEN search_caught("none")
    ELSE LET mode == IF has /\ embedded = "vec" THEN "vector" ELSE "text"
         IN  IF fail THEN search_caught(mode)
             ELSE SearchOutcome(filter_from(coll, answer, threshold, 1, <<>>), mode, "ok")

\* collection.query(..., n_results=limit): at most limit neighbours, each a stored
\* chunk, none twice, with the distance the store computed for it
Answers(coll, limit) ==
    {a \in UNION {[1..n -> [id : DOMAIN coll, distance : Distances]] :
                    n \in 0..Min({limit, Cardinality(DOMAIN coll)})} :
        \A i, j \in 1..Len(a) : i # j => a[i].id # a[j].id}

Empty == [x \in {} |-> 0]

\* an index to search: /w/n holds the two-chunk text, /w/n_0 the one-chunk text
SearchFiles == [f \in FileIds |-> IF f = str(AbsN) THEN 2 ELSE 1]

Indexed ==
    LET one == add_transcript(Empty, SearchFiles, 1, AbsN, FALSE, AllVec, "none").coll
    IN  add_transcript(one, SearchFiles, 2, AbsN0, FALSE, AllVec, "none").coll

SearchInit ==
    /\ collection \in {Empty, Indexed}
    /\ fs = (IF collection = Empty THEN [f \in FileIds |-> 0] ELSE SearchFiles)
    /\ now = (IF collection = Empty THEN 0 ELSE 2)
    /\ prev = collection
    /\ last = NoOp
    /\ procs = NoCalls
    /\ ChunkIdle

\* one call of search_similar on the index; the first query of a behaviour is
\* followed.  The store's answer is any that collection.query may give
SearchSimilar(limit, threshold, has, embedded, fail) ==
    /\ last.op = "none"
    /\ has \/ embedded = "vec"
    /\ \E answer \in Answers(collection, limit) :
         LET r == search_similar(collection, threshold, has, embedded, fail, answer)
         IN  last' = [op |-> "search", limit |-> limit, threshold |-> threshold,
                      has |-> has, embedded |-> embedded, fail |-> fail,
                      answer |-> answer, results |-> r.results, mode |-> r.mode,
                      stage |-> r.stage]
    /\ prev' = collection
    /\ UNCHANGED <<collection, fs, now>>
    /\ UNCHANGED procs
    /\ UNCHANGED chunkVars

NextSearch ==
    \E limit \in 1..MaxLimit, threshold \in Thresholds, has \in BOOLEAN,
       embedded \in Outcomes, fail \in BOOLEAN :
        SearchSimilar(limit, threshold, has, embedded, fail)

SpecSearch == SearchInit /\ [][NextSearch]_vars

-----------------------------------------------------------------------------
(* Properties of search_similar, checked under SpecSearch *)

Searched == last.op = "search"

\* the neighbours of the answer that pass the threshold
Passing == {i \in 1..Len(last.answer) :
               Scale - last.answer[i].distance >= last.threshold}

\* C14: a search that got an answer from the store returns a neighbour of that
\* answer if and only if its similarity, 1 - distance, is at least the threshold;
\* every result comes from the answer, and its similarity is 1 minus its distance
C14_ThresholdFilter ==
    (Searched /\ last.stage = "ok") =>
        /\ \A i \in 1..Len(last.answer) :
                (i \in Passing) <=>
                    (\E j \in 1..Len(last.results) : last.results[j].id = last.answer[i].id)
        /\ \A j \in 1..Len(last.results) :
                /\ last.results[j].similarity >= last.threshold
                /\ last.results[j].similarity = Scale - last.results[j].distance
                /\ \E i \in 1..Len(last.answer) :
                        /\ last.answer[i].id = last.results[j].id
                        /\ last.answer[i].distance = last.results[j].distance

\* a neighbour exactly at the threshold is kept, one just below it is dropped
C14_Witness ==
    /\ Searched /\ last.stage = "ok" /\ last.threshold > 0
    /\ \E i \in Passing : Scale - last.answer[i].distance = last.threshold
    /\ \E i \in 1..Len(last.answer) :
            Scale - last.answer[i].distance = last.threshold - 1
    /\ Len(last.results) = Cardinality(Passing)

\* position of a result's neighbour in the store's answer
PosInAnswer(id) == CHOOSE i \in 1..Len(last.answer) : last.answer[i].id = id

\* C15: search_similar(query, limit) returns at most limit results, in the order
\* the store's answer has them (never re-sorted), hence by non-increasing
\* similarity whenever the answer is by non-decreasing distance
C15_AnswerOrder ==
    Searched =>
        /\ Len(last.results) <= last.limit
        /\ \A j \in 1..Len(last.results) :
                \E i \in 1..Len(last.answer) : last.answer[i].id = last.results[j].id
        /\ \A j1, j2 \in 1..Len(last.results) :
                j1 < j2 => PosInAnswer(last.results[j1].id) < PosInAnswer(last.results[j2].id)
        /\ (\A i1, i2 \in 1..Len(last.answer) :
                i1 < i2 => last.answer[i1].distance <= last.answer[i2].distance)
            => \A j1, j2 \in 1..Len(last.results) :
                    j1 < j2 => last.results[j1].similarity >= last.results[j2].similarity

\* a full answer, nearest first, of which the threshold keeps two and drops the rest
C15_Witness ==
    /\ Searched /\ last.stage = "ok"
    /\ Len(last.answer) = last.limit
    /\ \A i1, i2 \in 1..Len(last.answer) :
            i1 < i2 => last.answer[i1].distance < last.answer[i2].distance
    /\ Len(last.results) = 2
    /\ Len(last.results) < Len(last.answer)
    /\ last.results[1].similarity > last.results[2].similarity

\* C16: with no provider, or with a provider that fails to embed the query (it
\* raises, or it returns no vector), search_similar issues the text query and
\* returns the neighbours of its answer that pass the threshold
C16_SearchFallback ==
    (/\ Searched
     /\ ~last.fail
     /\ (~last.has \/ last.embedded \in {"none", "raise"}))
    => /\ last.mode = "text"
       /\ Len(last.results) = Cardinality(Passing)

\* C17: when the store's query raises, on the vector path or on the text path,
\* search_similar returns the empty list and the collection is as it was
C17_SearchFailSoft ==
    (Searched /\ last.fail /\ last.mode \in {"vector", "text"}) =>
        /\ last.results = <<>>
        /\ last.stage = "error"
        /\ collection = prev

\* the vector query raises where its answer would have had results to return
C17_Witness ==
    /\ Searched /\ last.fail /\ last.mode = "vector"
    /\ Passing # {}
    /\ collection # Empty

-----------------------------------------------------------------------------
(* VectorStoreManager.get_collection_stats *)

\* line 277: the sample holds at most 100 chunks
SampleLimit == 100

RECURSIVE gcd(_, _)
gcd(a, b) == IF b = 0 THEN a ELSE gcd(b, a % b)

\* mutant of ratio: the quotient is rounded down to a whole number
ratio_floor(a, b) == [num |-> a \div b, den |-> 1]

\* line 293: a / b for b > 0, as a fraction in lowest terms
ratio(a, b) == [num |-> a \div gcd(a, b), den |-> b \div gcd(a, b)]

Zero == [num |-> 0, den |-> 1]

\* lines 275-301; sample is what collection.get(limit=sample_size) returned
get_collection_stats(coll, sample) ==
    LET count == Cardinality(DOMAIN coll)
        sample_size == Min({SampleLimit, count})
    IN  IF count > 0
        THEN LET unique_files == {coll[x].metadata.source_file : x \in sample}
             IN  [total_chunks        |-> count,
                  unique_files        |-> Cardinality(unique_files),
                  sample_size         |-> sample_size,
                  avg_chunks_per_file |-> IF unique_files # {}
                                          THEN ratio(count, Cardinality(unique_files))
                                          ELSE Zero]
        ELSE [total_chunks |-> 0, unique_files |-> 0, sample_size |-> 0,
              avg_chunks_per_file |-> Zero]

\* the subsets of ids that leave e of them out
RECURSIVE AllBut(_, _)
AllBut(ids, e) ==
    IF e = 0 THEN {ids}
    ELSE UNION {{X \ {x} : x \in X} : X \in AllBut(ids, e - 1)}

\* collection.get(limit=n): any n of the stored chunks (all of them if fewer)
Samples(coll, n) ==
    LET count == Cardinality(DOMAIN coll)
    IN  AllBut(DOMAIN coll, count - Min({n, count}))

\* number of one-letter chunks of SparseText
SparseChunks == 101

\* a transcript of single letters, each on a line of its own, 450 characters apart
\* (blank lines between them), so that every window of chunk_text holds one letter
SparseText ==
    [i \in 1..(450 * (SparseChunks - 1) + 101) |->
        IF i = 1 \/ (i > 450 /\ (i - 1) % 450 = 100) THEN "a" ELSE "\n"]

\* an index of more than SampleLimit chunks: /w/n holds SparseText, /w/n_0 the
\* one-chunk text
LargeIndex ==
    LET cs == chunk_text(strip(SparseText), DefaultChunkSize, DefaultChunkOverlap)
        noVectors == embed_all(FALSE, AllVec, Len(cs))
        one == upsert(Empty, new_records_of(AbsN, str(absolute(AbsN)), cs,
                                            NContents + 1, noVectors, 1))
    IN  upsert(one, new_records(AbsN0, str(absolute(AbsN0)), 1, noVectors, 2))

\* the transcript files themselves are gone once indexed
StatsInit ==
    /\ collection \in {Empty, Indexed, LargeIndex}
    /\ fs = [f \in FileIds |-> 0]
    /\ now = (IF collection = Empty THEN 0 ELSE 2)
    /\ prev = collection
    /\ last = NoOp
    /\ procs = NoCalls
    /\ ChunkIdle

\* one call of get_collection_stats; fail: a store call raises (lines 303-305)
GetCollectionStats(fail) ==
    /\ last.op = "none"
    /\ \E sample \in Samples(collection, SampleLimit) :
         last' = IF fail
                 THEN [op |-> "stats", fail |-> TRUE, sample |-> {},
                       stats |-> [error |-> "e"]]
                 ELSE [op |-> "stats", fail |-> FALSE, sample |-> sample,
                       stats |-> get_collection_stats(collection, sample)]
    /\ prev' = collection
    /\ UNCHANGED <<collection, fs, now>>
    /\ UNCHANGED procs
    /\ UNCHANGED chunkVars

NextStats == \E fail \in BOOLEAN : GetCollectionStats(fail)

SpecStats == StatsInit /\ [][NextStats]_vars

-----------------------------------------------------------------------------
(* Properties of get_collection_stats, checked under SpecStats *)

SampledFiles == {collection[x].metadata.source_file : x \in last.sample}

\* C18: get_collection_stats returns total_chunks = the number of stored chunks,
\* sample_size = min(100, total_chunks), unique_files = the number of distinct
\* source_file values among the sampled chunks (at most sample_size) and
\* avg_chunks_per_file = total_chunks / unique_files; all four are 0 for an
\* empty collection
C18_Stats ==
    (last.op = "stats" /\ ~last.fail) =>
        LET count == Cardinality(DOMAIN collection)
            s == last.stats
        IN  /\ s.total_chunks = count
            /\ s.sample_size = (IF count < 100 THEN count ELSE 100)
            /\ Cardinality(last.sample) = s.sample_size
            /\ last.sample \subseteq DOMAIN collection
            /\ s.unique_files = Cardinality(SampledFiles)
            /\ s.unique_files <= s.sample_size
            /\ count > 0 =>
                    /\ s.unique_files > 0
                    /\ s.avg_chunks_per_file.num * s.unique_files
                            = count * s.avg_chunks_per_file.den
            /\ count = 0 =>
                    /\ s.unique_files = 0
                    /\ s.avg_chunks_per_file.num = 0

\* more than 100 chunks of two files are stored and the sample of 100 holds
\* chunks of one file only
C18_Witness ==
    /\ last.op = "stats" /\ ~last.fail
    /\ last.stats.total_chunks > 100
    /\ last.stats.sample_size = 100
    /\ last.stats.unique_files = 1
    /\ Cardinality({collection[x].metadata.source_file : x \in DOMAIN collection}) = 2

-----------------------------------------------------------------------------
(* Further properties of chunk_text, checked under SpecChunk *)

\* C19: for a text no longer than chunk_size, chunk_text returns the one-element
\* list holding the text itself, untrimmed
C19_ShortIdentity ==
    (pc = "done" /\ Len(text) <= chunk_size) => chunks = <<text>>

\* a short text with white space at an end has been returned
C19_Witness ==
    /\ pc = "done"
    /\ Len(text) <= chunk_size
    /\ ~Blank(text)
    /\ text # strip(text)
    /\ Len(chunks) = 1

-----------------------------------------------------------------------------
(* Two add_transcript calls at the same time.  Each call is a sequence of steps, *)
(* and every store call (get, upsert) is one step                                *)

\* a provider that does the same on every call
Uniform(e) == [i \in 0..(MaxChunks - 1) |-> e]

\* an index made earlier from the one-chunk text alone, at /w/n
IndexedShort ==
    add_transcript(Empty, [f \in FileIds |-> 1], 1, AbsN, FALSE, AllVec, "none").coll

\* the two calls are for files whose canonical paths differ
ConcInit ==
    /\ fs \in [FileIds -> 0..NContents]
    /\ collection \in {Empty, Indexed, IndexedShort}
    /\ now = 2
    /\ prev = collection
    /\ last = NoOp
    /\ \E p1, p2 \in Paths, has1, has2 \in BOOLEAN, e1, e2 \in Outcomes :
          /\ str(absolute(p1)) # str(absolute(p2))
          /\ has1 \/ e1 = "vec"
          /\ has2 \/ e2 = "vec"
          /\ procs = [i \in Procs |-> IF i = 1 THEN Call("read", p1, has1, Uniform(e1))
                                      ELSE Call("read", p2, has2, Uniform(e2))]
    /\ ChunkIdle

Returns(i, ret, stage) ==
    procs' = [procs EXCEPT ![i].pc = "done", ![i].ret = ret, ![i].stage = stage]

\* lines 104-113: exists(), read().strip(), the empty test
StepRead(i) ==
    /\ procs[i].pc = "read"
    /\ LET k == fs[str(absolute(procs[i].path))]
       IN  IF k = 0 THEN Returns(i, FALSE, "notfound")
           ELSE IF Content[k] = <<>> THEN Returns(i, FALSE, "empty")
           ELSE procs' = [procs EXCEPT ![i].pc = "lookup", ![i].k = k]
    /\ UNCHANGED <<fs, collection, now, prev, last>>
    /\ UNCHANGED chunkVars

\* lines 116-125: collection.get(ids=[file_id]) and the digest comparison
StepLookup(i) ==
    /\ procs[i].pc = "lookup"
    /\ IF up_to_date(collection, str(absolute(procs[i].path)), procs[i].k)
       THEN Returns(i, TRUE, "uptodate")
       ELSE procs' = [procs EXCEPT ![i].pc = "embed"]
    /\ UNCHANGED <<fs, collection, now, prev, last>>
    /\ UNCHANGED chunkVars

\* lines 128-156: chunks, embeddings, ids and metadata (datetime.now())
StepEmbed(i) ==
    /\ procs[i].pc = "embed"
    /\ LET c == procs[i]
           embeddings == embed_all(c.has, c.provider, Len(ChunksOf[c.k]))
       IN  procs' = [procs EXCEPT
                        ![i].pc = "upsert",
                        ![i].embeddings = embeddings,
                        ![i].t = now + 1,
                        ![i].records = new_records(c.path, str(absolute(c.path)), c.k,
                                                   embeddings, now + 1)]
    /\ now' = now + 1
    /\ UNCHANGED <<fs, collection, prev, last>>
    /\ UNCHANGED chunkVars

\* mutant of StepUpsert: the call looks again and gives up when the file's
\* first chunk was stored by someone else since the lookup
StepUpsert_recheck(i) ==
    /\ procs[i].pc = "upsert"
    /\ LET mine == procs[i].records
           taken == \E x \in DOMAIN mine \cap DOMAIN collection :
                        collection[x].metadata.added_date >= procs[i].t
       IN  IF taken
           THEN /\ Returns(i, TRUE, "uptodate")
                /\ UNCHANGED collection
           ELSE IF rejected(procs[i].embeddings)
           THEN /\ Returns(i, FALSE, "error")
                /\ UNCHANGED collection
           ELSE /\ collection' = upsert(collection, mine)
                /\ Returns(i, TRUE, "upserted")
    /\ UNCHANGED <<fs, now, prev, last>>
    /\ UNCHANGED chunkVars

\* lines 159-178: collection.upsert, return True; or the handler, return False
StepUpsert(i) ==
    /\ procs[i].pc = "upsert"
    /\ IF rejected(procs[i].embeddings)
       THEN /\ Returns(i, FALSE, "error")
            /\ UNCHANGED collection
       ELSE /\ collection' = upsert(collection, procs[i].records)
            /\ Returns(i, TRUE, "upserted")
    /\ UNCHANGED <<fs, now, prev, last>>
    /\ UNCHANGED chunkVars

NextConc ==
    \E i \in Procs : StepRead(i) \/ StepLookup(i) \/ StepEmbed(i) \/ StepUpsert(i)

SpecConc == ConcInit /\ [][NextConc]_vars

-----------------------------------------------------------------------------
(* Properties of concurrent add_transcript calls, checked under SpecConc *)

AllDone == \A i \in Procs : procs[i].pc = "done"

\* a collection without its added_date readings
Undated(coll) ==
    [x \in DOMAIN coll |-> [coll[x] EXCEPT !.metadata.added_date = 0]]

\* call i, then call j, one after the other on the collection the calls began with
InTurn(i, j) ==
    LET first == add_transcript(prev, fs, 0, procs[i].path, procs[i].has,
                                procs[i].provider, "none")
        second == add_transcript(first.coll, fs, 0, procs[j].path, procs[j].has,
                                 procs[j].provider, "none")
    IN  [coll |-> second.coll, ret |-> [x \in {i, j} |-> IF x = i THEN first.ret
                                                          ELSE second.ret]]

\* C20: two add_transcript calls on files with different canonical paths, their
\* steps interleaved in any way, end in the collection (and with the return
\* values) that running one call after the other gives; the ids they write are
\* disjoint and what each has upserted is still stored at the end
C20_ConcurrentAdds ==
    AllDone =>
        /\ \E i, j \in Procs :
              /\ i # j
              /\ Undated(collection) = Undated(InTurn(i, j).coll)
              /\ \A x \in Procs : procs[x].ret = InTurn(i, j).ret[x]
        /\ \A i, j \in Procs :
              i # j => DOMAIN procs[i].records \cap DOMAIN procs[j].records = {}
        /\ \A i \in Procs :
              procs[i].stage = "upserted" =>
                  \A x \in DOMAIN procs[i].records :
                      /\ x \in DOMAIN collection
                      /\ collection[x] = procs[i].records[x]

\* both calls have upserted and they overlapped: call a built its metadata first,
\* yet call b looked up before a's upsert (after it, b would have found a's chunk
\* with the digest of b's own content and returned without upserting)
C20_Witness ==
    /\ AllDone
    /\ \E a, b \in Procs :
          /\ a # b
          /\ procs[a].stage = "upserted" /\ procs[b].stage = "upserted"
          /\ procs[a].t < procs[b].t
          /\ up_to_date(collection, str(absolute(procs[b].path)), procs[b].k)

-----------------------------------------------------------------------------
(* Two add_transcript calls on the same file while the file is rewritten *)

\* both calls name the same file (as the same path or as two spellings of it);
\* only that file exists
RaceInit ==
    /\ collection \in {Empty, IndexedShort}
    /\ now = 2
    /\ prev = collection
    /\ last = NoOp
    /\ \E p1, p2 \in Paths, has1, has2 \in BOOLEAN, k \in 0..NContents :
          /\ str(absolute(p1)) = str(absolute(p2))
          /\ fs = [f \in FileIds |-> IF f = str(absolute(p1)) THEN k ELSE 0]
          /\ procs = [i \in Procs |-> IF i = 1 THEN Call("read", p1, has1, AllVec)
                                      ELSE Call("read", p2, has2, AllVec)]
    /\ ChunkIdle

\* the steps of the two calls, and the file being rewritten in between
NextRace ==
    \/ \E i \in Procs : StepRead(i) \/ StepLookup(i) \/ StepEmbed(i) \/ StepUpsert(i)
    \/ \E k \in 0..NContents : WriteFile(str(absolute(procs[1].path)), k)

SpecRace == RaceInit /\ [][NextRace]_vars

-----------------------------------------------------------------------------
(* Properties of same-file calls, checked under SpecRace *)

RacedFile == str(absolute(procs[1].path))

\* C21: add_transcript checks and then acts: a call that has passed the lookup
\* embeds and upserts what it read without looking again, so two calls on the
\* same file can both pass the lookup, both embed and both upsert, and the call
\* that read the older content can be the one whose records stay
C21_CheckThenAct ==
    \A i \in Procs :
        (procs[i].pc = "done" /\ procs[i].t > 0) =>
            /\ procs[i].stage = "upserted"
            /\ procs[i].ret
            /\ \A x \in DOMAIN procs[i].records :
                  procs[i].records[x].metadata.content_hash = procs[i].k
            /\ \E j \in Procs :
                  /\ procs[j].stage = "upserted"
                  /\ \A x \in DOMAIN procs[j].records :
                        /\ x \in DOMAIN collection
                        /\ collection[x] = procs[j].records[x]

\* both calls passed the lookup before either upserted (a built its metadata
\* before b did, and a's records are the ones stored); call b read the content
\* the file has now, call a an older one, and the index holds a's content_hash
C21_Witness ==
    /\ AllDone
    /\ \E a, b \in Procs :
          /\ a # b
          /\ procs[a].stage = "upserted" /\ procs[b].stage = "upserted"
          /\ procs[a].has /\ procs[b].has
          /\ procs[a].t < procs[b].t
          /\ procs[b].k = fs[RacedFile]
          /\ procs[a].k # procs[b].k
          /\ \A x \in DOMAIN procs[a].records : collection[x] = procs[a].records[x]
          /\ collection[IdOf(RacedFile, 0)].metadata.content_hash = procs[a].k

-----------------------------------------------------------------------------
(* Further properties of add_transcript, checked under Spec *)

\* C22: an add_transcript that reaches the embedding loop with a provider calls
\* get_embedding once per chunk in chunk order and stops at the first call that
\* raises; when every call returns a vector there are as many calls as chunks
\* and the vector stored for chunk i is the one returned for chunk i
C22_EmbedOrder ==
    (last.op = "add" /\ last.has /\ last.stage \in {"upserted", "error"}) =>
        LET log == last.log
            n == Len(ChunksOf[fs[LastFile]])
        IN  /\ Len(log) <= n
            /\ \A c \in 1..Len(log) : log[c].chunk = c - 1
            /\ \A c \in 1..(Len(log) - 1) : log[c].outcome # "raise"
            /\ (\A c \in 1..Len(log) : log[c].outcome # "raise") => Len(log) = n
            /\ (\A c \in 1..Len(log) : log[c].outcome = "vec") =>
                    /\ last.stage = "upserted"
                    /\ \A i \in 0..(n - 1) :
                          collection[IdOf(LastFile, i)].embedding = "vec" \o ToString(i)

\* a file of two chunks has been embedded, chunk 0 then chunk 1, and stored
C22_Witness ==
    /\ last.op = "add" /\ last.has /\ last.stage = "upserted"
    /\ Len(last.log) = 2
    /\ collection[IdOf(LastFile, 0)].embedding = "vec0"
    /\ collection[IdOf(LastFile, 1)].embedding = "vec1"

\* the ids add_transcript may write for the file with canonical path f
IdsOf(f) == {IdOf(f, i) : i \in 0..MaxChunks}

\* C23: add_transcript(p) creates or overwrites only chunks with id
\* absolute(p)_i, remove_transcript(p) deletes only chunks whose source_file is
\* str(p) and changes none; every other chunk is stored as it was
C23_Frame ==
    /\ last.op = "add" =>
          /\ \A x \in DOMAIN prev \ IdsOf(LastFile) :
                x \in DOMAIN collection /\ collection[x] = prev[x]
          /\ DOMAIN collection \ DOMAIN prev \subseteq IdsOf(LastFile)
    /\ last.op = "remove" =>
          /\ DOMAIN collection \subseteq DOMAIN prev
          /\ \A x \in DOMAIN collection : collection[x] = prev[x]
          /\ \A x \in DOMAIN prev \ DOMAIN collection :
                prev[x].metadata.source_file = str(last.path)

\* a file has been indexed while chunks of another file were stored
C23_Witness ==
    /\ last.op = "add" /\ last.stage = "upserted"
    /\ DOMAIN prev \ IdsOf(LastFile) # {}
    /\ DOMAIN collection \cap IdsOf(LastFile) # {}

\* add_transcript(p), remove_transcript(p), add_transcript(p) run one after the
\* other from the current state, the file untouched in between
Reindex(p) ==
    LET first  == add_transcript(collection, fs, now + 1, p, FALSE, AllVec, "none")
        gone   == remove_transcript(first.coll, p, "none")
        third  == add_transcript(gone.coll, fs, now + 2, p, FALSE, AllVec, "none")
    IN  [first |-> first, gone |-> gone, third |-> third]

\* the ids and documents stored for the file with canonical path f
DocsOf(coll, f) ==
    [x \in DOMAIN coll \cap IdsOf(f) |-> coll[x].document]

\* C24: when add_transcript(p) returns true and remove_transcript(p) then returns
\* true, a further add_transcript(p) on the unchanged file is not stopped by
\* change detection: it returns true and the file's chunks are stored with the
\* ids and documents they had after the first add
C24_ReindexAfterRemove ==
    \A p \in Paths :
        LET r == Reindex(p)
            f == str(absolute(p))
        IN  (r.first.ret /\ r.gone.ret) =>
                /\ r.third.ret
                /\ r.third.stage = "upserted"
                /\ DocsOf(r.third.coll, f) = DocsOf(r.first.coll, f)

-----------------------------------------------------------------------------
(* Further properties of chunk_text, checked under SpecChunk *)

\* C25: every chunk chunk_text builds, for any text and any chunk_size >= 1, is
\* at most chunk_size characters long
C25_ChunkSizeBound ==
    \A k \in 1..Len(chunks) : Len(chunks[k]) <= chunk_size

\* the loop has returned a chunk of exactly chunk_size characters and a shorter one
C25_Witness ==
    /\ pc = "done"
    /\ Len(text) > chunk_size
    /\ \E k \in 1..Len(chunks) : Len(chunks[k]) = chunk_size
    /\ \E k \in 1..Len(chunks) : Len(chunks[k]) < chunk_size

-----------------------------------------------------------------------------
(* VectorStoreManager.rebuild_index *)

\* the directory passed as transcripts_dir and the names it may hold
DirW == [anchored |-> TRUE, parts |-> <<"w">>]
Stems == {"a", "b", "c"}
Listing == <<"a.txt", "c.wav", "b.md">>

child(dir, nm) == [dir EXCEPT !.parts = Append(@, nm)]

DirIds == {str(absolute(child(DirW, Listing[j]))) : j \in 1..Len(Listing)}

\* Path.glob("*" + suffix) on a name
glob_match(nm, suffix) == \E stem \in Stems : nm = stem \o suffix

\* line 359: list(dir.glob("*.txt")) + list(dir.glob("*.md")), over the files that
\* exist, from entry j of the listing on
RECURSIVE glob_from(_, _, _, _)
glob_from(files, dir, suffix, j) ==
    IF j > Len(Listing) THEN <<>>
    ELSE LET p == child(dir, Listing[j])
             rest == glob_from(files, dir, suffix, j + 1)
         IN  IF files[str(absolute(p))] # 0 /\ glob_match(Listing[j], suffix)
             THEN <<p>> \o rest ELSE rest

transcript_files(files, dir) ==
    glob_from(files, dir, ".txt", 1) \o glob_from(files, dir, ".md", 1)

\* mutant of recreated: the collection is reopened with what it holds
recreated_kept(coll) == coll

\* lines 348-356: delete_collection("transcripts"), then create_collection
recreated(coll) == Empty

\* lines 361-364: the loop over transcript_files, from file j on; t is the clock
RECURSIVE add_each(_, _, _, _, _, _, _, _, _)
add_each(coll, files, t, ps, j, has, provider, fail, success_count) ==
    IF j > Len(ps) THEN [coll |-> coll, success_count |-> success_count, t |-> t]
    ELSE LET r == add_transcript(coll, files, t + 1, ps[j], has, provider, fail)
         IN  add_each(r.coll, files, IF r.stage = "upserted" THEN t + 1 ELSE t,
                      ps, j + 1, has, provider, fail,
                      IF r.ret THEN success_count + 1 ELSE success_count)

\* lines 346-371.  fail names the store call that raises: "delete_collection",
\* "create_collection", "upsert" (in every add_transcript), or "none".
\* usable: self.collection refers to a collection that exists
rebuild_index(coll, files, t, dir, has, provider, fail) ==
    IF fail = "delete_collection"
    THEN [ret |-> FALSE, coll |-> coll, usable |-> TRUE, t |-> t, n |-> 0]
    ELSE IF fail = "create_collection"
    THEN \* the collection is deleted and self.collection still names it
         [ret |-> FALSE, coll |-> Empty, usable |-> FALSE, t |-> t, n |-> 0]
    ELSE LET ps == transcript_files(files, dir)
             r == add_each(recreated(coll), files, t, ps, 1, has, provider,
                           IF fail = "upsert" THEN "upsert" ELSE "none", 0)
         IN  [ret |-> r.success_count > 0, coll |-> r.coll, usable |-> TRUE,
              t |-> r.t, n |-> Len(ps)]

\* the index made earlier from the files old, each added by its path in dir
RECURSIVE IndexOf(_, _, _, _)
IndexOf(old, coll, t, j) ==
    IF j > Len(Listing) THEN [coll |-> coll, t |-> t]
    ELSE LET r == add_transcript(coll, old, t + 1, child(DirW, Listing[j]),
                                 FALSE, AllVec, "none")
         IN  IndexOf(old, r.coll, IF r.stage = "upserted" THEN t + 1 ELSE t, j + 1)

\* what dir may hold: any content in the transcripts, and a recording or not
DirStates ==
    {f \in [DirIds -> 0..NContents] :
        f[str(absolute(child(DirW, "c.wav")))] \in {0, 1}}

\* the index was made from some earlier state of dir; rebuild_index is then called
RebuildInit ==
    /\ fs \in DirStates
    /\ \E old \in DirStates :
          /\ collection = IndexOf(old, Empty, 0, 1).coll
          /\ now = IndexOf(old, Empty, 0, 1).t
    /\ prev = collection
    /\ last = NoOp
    /\ procs = NoCalls
    /\ ChunkIdle

RebuildIndex(has, e, fail) ==
    /\ last.op = "none"
    /\ has \/ e = "vec"
    /\ LET r == rebuild_index(collection, fs, now, DirW, has, Uniform(e), fail)
       IN  /\ collection' = r.coll
           /\ now' = r.t
           /\ last' = [op |-> "rebuild", ret |-> r.ret, usable |-> r.usable,
                       has |-> has, embedded |-> e, fail |-> fail, n |-> r.n,
                       t0 |-> now]
    /\ prev' = collection
    /\ UNCHANGED <<fs, procs>>
    /\ UNCHANGED chunkVars

\* the store answers every call
NextRebuild ==
    \E has \in BOOLEAN, e \in Outcomes : RebuildIndex(has, e, "none")

SpecRebuild == RebuildInit /\ [][NextRebuild]_vars

\* a store call may raise
NextRebuildFail ==
    \E has \in BOOLEAN, e \in Outcomes,
       fail \in {"none", "delete_collection", "create_collection", "upsert"} :
        RebuildIndex(has, e, fail)

SpecRebuildFail == RebuildInit /\ [][NextRebuildFail]_vars

-----------------------------------------------------------------------------
(* Properties of rebuild_index *)

\* the transcript files of dir: the ids of the files transcript_files lists
Transcripts ==
    {str(absolute(transcript_files(fs, DirW)[j])) :
        j \in 1..Len(transcript_files(fs, DirW))}

\* C26 (under SpecRebuild): after rebuild_index the collection holds only chunks
\* written by this call for the .txt/.md files of dir, with their present
\* content; no chunk stored before the call is still stored
C26_RebuildFromScratch ==
    last.op = "rebuild" =>
        /\ \A x \in DOMAIN collection :
              /\ collection[x].metadata.added_date > last.t0
              /\ \E f \in Transcripts, i \in 0..(MaxChunks - 1) :
                    /\ x = IdOf(f, i)
                    /\ i < Len(ChunksOf[fs[f]])
                    /\ collection[x].document = ChunksOf[fs[f]][i + 1]
        /\ \A x \in DOMAIN prev :
              x \in DOMAIN collection => collection[x] # prev[x]
        /\ \A x \in DOMAIN prev :
              prev[x].metadata.added_date <= last.t0

\* the old index held a chunk of a file that is gone and a trailing chunk of a
\* file that has shrunk; the rebuilt index holds the shrunk file
C26_Witness ==
    /\ last.op = "rebuild" /\ last.ret
    /\ \E x \in DOMAIN prev : fs[prev[x].metadata.source_file] = 0
    /\ \E f \in Transcripts :
          /\ IdOf(f, 1) \in DOMAIN prev
          /\ IdOf(f, 0) \in DOMAIN collection
          /\ IdOf(f, 1) \notin DOMAIN collection

\* C27 (under SpecRebuildFail): whenever rebuild_index returns false the
\* collection holds the chunks it held before the call and the manager refers
\* to a usable collection
C27_RebuildFailureIntact ==
    (last.op = "rebuild" /\ ~last.ret) =>
        /\ collection = prev
        /\ last.usable

-----------------------------------------------------------------------------
(* cli.py: the embed and remove commands on one session folder.  Folder names  *)
(* are sequences of characters; here fs is the record [root, created, dir,     *)
(* files]: the recordings directory, the name the session folder was created   *)
(* with, its present name, and the content of each transcript in it            *)

\* largest clock reading at which embed still runs
MaxCliNow == 2

Digits == {"1", "2"}

\* cli.py line 72: strftime("%d%m%Y_%H%M%S"), digits around one underscore
Timestamps == {<<a, "_", b>> : a, b \in Digits}

\* the transcripts a session may hold, in the order of glob("*.md") + glob("*.txt")
FNames == <<"t.md", "u.txt">>

RecordingsDirs == {[anchored |-> FALSE, parts |-> <<"r">>],
                   [anchored |-> TRUE,  parts |-> <<"w", "r">>]}

\* the string of a name
RECURSIVE cat(_)
cat(nm) == IF nm = <<>> THEN "" ELSE nm[1] \o cat(Tail(nm))

\* Python nm.endswith(suffix)
endswith(nm, suffix) ==
    /\ Len(nm) >= Len(suffix)
    /\ SubSeq(nm, Len(nm) - Len(suffix) + 1, Len(nm)) = suffix

\* Python nm.replace(old, ''): every occurrence of old, left to right, is dropped
RECURSIVE replace(_, _)
replace(nm, old) ==
    IF Len(nm) < Len(old) THEN nm
    ELSE IF SubSeq(nm, 1, Len(old)) = old
         THEN replace(SubSeq(nm, Len(old) + 1, Len(nm)), old)
         ELSE <<nm[1]>> \o replace(Tail(nm), old)

\* mutant of session_base_name: the present folder name is used as it is
session_base_name_same(nm) == nm

\* cli.py line 1057: session_dir.name.replace('_v', '').replace('_nv', '')
session_base_name(nm) == replace(replace(nm, <<"_", "v">>), <<"_", "n", "v">>)

\* recordings_dir / folder / file
transcript_path(root, folder, fname) == child(child(root, cat(folder)), fname)

\* cli.py lines 501-502 and 1046: the transcripts found in the folder
RECURSIVE session_glob(_, _, _, _)
session_glob(root, folder, files, j) ==
    IF j > Len(FNames) THEN <<>>
    ELSE LET rest == session_glob(root, folder, files, j + 1)
         IN  IF files[FNames[j]] # 0
             THEN <<transcript_path(root, folder, FNames[j])>> \o rest ELSE rest

\* the files of the session as add_transcript sees them: canonical path -> content
SessionFiles(d) ==
    [id \in {str(absolute(transcript_path(d.root, d.dir, FNames[j]))) :
                j \in 1..Len(FNames)} |->
        d.files[CHOOSE f \in {FNames[j] : j \in 1..Len(FNames)} :
                    str(absolute(transcript_path(d.root, d.dir, f))) = id]]

\* cli.py lines 512-541: add every transcript found, then rename the folder of
\* the ones that were added; folders ending in _v or _nv are skipped (496-500)
embed(coll, d, t, provider) ==
    IF endswith(d.dir, <<"_", "v">>) \/ endswith(d.dir, <<"_", "n", "v">>)
    THEN [coll |-> coll, d |-> d, t |-> t, n |-> 0]
    ELSE LET ps == session_glob(d.root, d.dir, d.files, 1)
             r == add_each(coll, SessionFiles(d), t, ps, 1, TRUE, provider, "none", 0)
         IN  [coll |-> r.coll,
              d |-> IF r.success_count > 0
                    THEN [d EXCEPT !.dir = d.dir \o <<"_", "v">>] ELSE d,
              t |-> r.t, n |-> r.success_count]

\* cli.py lines 1060-1070: the loop over the transcripts, from file j on
RECURSIVE remove_each(_, _, _, _, _)
remove_each(coll, d, ps, j, removed_count) ==
    IF j > Len(ps) THEN [coll |-> coll, removed_count |-> removed_count]
    ELSE LET cur == remove_transcript(coll, ps[j], "none")
             original_transcript ==
                 transcript_path(d.root, session_base_name(d.dir), name(ps[j]))
             orig == remove_transcript(cur.coll, original_transcript, "none")
         IN  IF cur.ret THEN remove_each(cur.coll, d, ps, j + 1, removed_count + 1)
             ELSE remove_each(orig.coll, d, ps, j + 1,
                              IF orig.ret THEN removed_count + 1 ELSE removed_count)

\* cli.py lines 1043-1082, for the session folder that matched
remove(coll, d) ==
    LET ps == session_glob(d.root, d.dir, d.files, 1)
        r == remove_each(coll, d, ps, 1, 0)
    IN  IF ps = <<>> THEN [coll |-> coll, d |-> d, n |-> 0]
        ELSE [coll |-> r.coll,
              d |-> IF r.removed_count > 0 /\ endswith(d.dir, <<"_", "v">>)
                    THEN [d EXCEPT !.dir = SubSeq(d.dir, 1, Len(d.dir) - 2)] ELSE d,
              n |-> r.removed_count]

\* a session folder just created, with its transcripts written
CliInit ==
    /\ \E root \in RecordingsDirs, ts \in Timestamps, k1 \in 1..NContents, k2 \in 0..2 :
          fs = [root |-> root, created |-> ts, dir |-> ts,
                files |-> [f \in {"t.md", "u.txt"} |-> IF f = "t.md" THEN k1 ELSE k2]]
    /\ collection = Empty
    /\ now = 0
    /\ prev = collection
    /\ last = NoOp
    /\ procs = NoCalls
    /\ ChunkIdle

\* dictate embed; e is what GeminiTranscriber.get_embedding does (it never raises)
CliEmbed(e) ==
    /\ now < MaxCliNow
    /\ LET r == embed(collection, fs, now, Uniform(e))
       IN  /\ collection' = r.coll
           /\ fs' = r.d
           /\ now' = r.t
           /\ last' = [op |-> "embed", n |-> r.n, dir |-> fs.dir]
    /\ prev' = collection
    /\ UNCHANGED procs
    /\ UNCHANGED chunkVars

\* dictate remove <session>
CliRemove ==
    /\ LET r == remove(collection, fs)
       IN  /\ collection' = r.coll
           /\ fs' = r.d
           /\ last' = [op |-> "remove", n |-> r.n, dir |-> fs.dir]
    /\ prev' = collection
    /\ UNCHANGED <<now, procs>>
    /\ UNCHANGED chunkVars

NextCli ==
    \/ \E e \in {"vec", "none"} : CliEmbed(e)
    \/ CliRemove

SpecCli == CliInit /\ [][NextCli]_vars

-----------------------------------------------------------------------------
(* Properties of the embed and remove commands, checked under SpecCli *)

\* the chunks stored for the transcripts of the session, under either folder name
SessionChunks(coll) ==
    {x \in DOMAIN coll :
        \E j \in 1..Len(FNames), folder \in {fs.created, fs.created \o <<"_", "v">>} :
            \/ coll[x].metadata.source_file
                  = str(transcript_path(fs.root, folder, FNames[j]))
            \/ \E i \in 0..MaxChunks :
                  x = IdOf(str(absolute(transcript_path(fs.root, folder, FNames[j]))), i)}

\* C28: once embed has indexed transcripts of session folder F and renamed it to
\* F_v, remove deletes every chunk of the session's transcripts and renames the
\* folder back to F
C28_RemoveAcrossRename ==
    (/\ last.op = "remove"
     /\ last.dir = fs.created \o <<"_", "v">>
     /\ SessionChunks(prev) # {})
    => /\ SessionChunks(collection) = {}
       /\ fs.dir = fs.created
       /\ last.n > 0

\* two transcripts were indexed under F, the folder became F_v, and remove ran
C28_Witness ==
    /\ last.op = "remove"
    /\ last.dir = fs.created \o <<"_", "v">>
    /\ Cardinality(SessionChunks(prev)) >= 2
    /\ last.n = 2
    /\ collection = Empty

-----------------------------------------------------------------------------
(* VectorStoreManager.voice_search *)

\* defaults of search_similar (line 180): limit=5, threshold=0.0
DefaultLimit == 5
DefaultThreshold == 0

\* what transcriber.transcribe_audio does: returns the query text, returns
\* nothing (None or ''), or raises
Transcriptions == {"text", "nothing", "raise"}

\* lines 251-265.  heard: what transcribe_audio did; the transcriber is not
\* handed on to search_similar (line 261), so has is FALSE there
voice_search(coll, heard, fail, answer) ==
    IF heard = "nothing" THEN SearchOutcome(<<>>, "none", "unheard")
    ELSE IF heard = "raise" THEN SearchOutcome(<<>>, "none", "error")
    ELSE search_similar(coll, DefaultThreshold, FALSE, "vec", fail, answer)

VoiceSearch(heard, fail) ==
    /\ last.op = "none"
    /\ \E answer \in Answers(collection, DefaultLimit) :
         LET r == voice_search(collection, heard, fail, answer)
         IN  last' = [op |-> "voice", heard |-> heard, fail |-> fail,
                      limit |-> DefaultLimit, threshold |-> DefaultThreshold,
                      answer |-> answer, results |-> r.results, mode |-> r.mode,
                      stage |-> r.stage]
    /\ prev' = collection
    /\ UNCHANGED <<collection, fs, now, procs>>
    /\ UNCHANGED chunkVars

NextVoice ==
    \E heard \in Transcriptions, fail \in BOOLEAN : VoiceSearch(heard, fail)

SpecVoice == SearchInit /\ [][NextVoice]_vars

-----------------------------------------------------------------------------
(* Properties of voice_search, checked under SpecVoice *)

\* C29: when the audio query is transcribed, voice_search hands the transcriber
\* on to search_similar, so the store is asked by vector (query_embeddings) and
\* not by text; when transcription fails it returns the empty list and asks the
\* store nothing
C29_VoiceSearchVector ==
    last.op = "voice" =>
        /\ last.heard = "text" => last.mode = "vector"
        /\ last.heard # "text" => (last.results = <<>> /\ last.mode = "none")

-----------------------------------------------------------------------------
(* AudioRecorder: start_recording, stop_recording and the auto-save worker,  *)
(* one statement of each thread at a time.  fs holds the recorder's fields   *)
(* and the temp files on disk, procs the worker threads ever started, now    *)
(* the wall clock in seconds, last the latest auto-save write.               *)

\* recordings started in one behaviour
MaxRecordings == 2
\* blocks the stream callback appends to frames in one recording
MaxFrames == 1
\* seconds the wall clock advances
MaxClock == 1

\* lines 164-165: temp_recording_<%Y%m%d_%H%M%S>.wav, one name per second
temp_name(t) == "temp_recording_" \o ToString(t) \o ".wav"

\* __init__ (lines 118-133); main is the position of the caller inside
\* stop_recording, stopped the recordings whose stop_recording has returned
RecorderInit ==
    /\ fs = [is_recording |-> FALSE, frames |-> 0, temp_file_path |-> "None",
             auto_save_thread |-> 0, stream |-> FALSE, files |-> {},
             main |-> "idle", stopped |-> {}]
    /\ procs = <<>>
    /\ now = 0
    /\ last = NoOp
    /\ collection = Empty
    /\ prev = Empty
    /\ ChunkIdle

\* the threads that have not left _auto_save_worker
alive(ps) == {i \in DOMAIN ps : ps[i].pc # "done"}

\* lines 152-186: raises when already recording; resets frames, sets the flag,
\* names the temp file, starts a new daemon thread and the input stream
StartRecording ==
    /\ fs.main = "idle"
    /\ ~fs.is_recording
    /\ Len(procs) < MaxRecordings
    /\ procs' = Append(procs, [pc |-> "while", of |-> Len(procs) + 1])
    /\ fs' = [fs EXCEPT !.frames = 0, !.is_recording = TRUE,
                        !.temp_file_path = temp_name(now),
                        !.auto_save_thread = Len(procs) + 1,
                        !.stream = TRUE]
    /\ UNCHANGED <<collection, now, prev, last>>
    /\ UNCHANGED chunkVars

\* lines 172-176: the stream's callback appends a block while is_recording
AudioCallback ==
    /\ fs.stream
    /\ fs.is_recording
    /\ fs.frames < MaxFrames
    /\ fs' = [fs EXCEPT !.frames = @ + 1]
    /\ UNCHANGED <<collection, now, prev, last, procs>>
    /\ UNCHANGED chunkVars

\* line 190: `while self.is_recording`
WorkerWhile(i) ==
    /\ procs[i].pc = "while"
    /\ procs' = [procs EXCEPT ![i].pc = IF fs.is_recording THEN "sleep" ELSE "done"]
    /\ UNCHANGED <<fs, collection, now, prev, last>>
    /\ UNCHANGED chunkVars

\* lines 191-192: time.sleep(10) returns, then `if self.is_recording and
\* self.frames`
WorkerWake(i) ==
    /\ procs[i].pc = "sleep"
    /\ procs' = [procs EXCEPT ![i].pc =
                    IF fs.is_recording /\ fs.frames > 0 THEN "save" ELSE "while"]
    /\ UNCHANGED <<fs, collection, now, prev, last>>
    /\ UNCHANGED chunkVars

\* lines 195-204: _save_current_buffer_to_temp writes self.frames to
\* self.temp_file_path, both read when the write happens
WorkerSave(i) ==
    /\ procs[i].pc = "save"
    /\ procs' = [procs EXCEPT ![i].pc = "while"]
    /\ IF fs.frames > 0
       THEN /\ fs' = [fs EXCEPT !.files = @ \cup {fs.temp_file_path}]
            /\ last' = [op |-> "autosave", worker |-> i, of |-> procs[i].of,
                        path |-> fs.temp_file_path,
                        current |-> fs.auto_save_thread,
                        stopped |-> fs.stopped]
       ELSE UNCHANGED <<fs, last>>
    /\ UNCHANGED <<collection, now, prev>>
    /\ UNCHANGED chunkVars

\* lines 215-223: raises when not recording; clears the flag, stops and closes
\* the stream
StopRecording ==
    /\ fs.main = "idle"
    /\ fs.is_recording
    /\ fs' = [fs EXCEPT !.is_recording = FALSE, !.stream = FALSE, !.main = "join"]
    /\ UNCHANGED <<collection, now, prev, last, procs>>
    /\ UNCHANGED chunkVars

\* lines 226-227: join(timeout=2.0) returns when the thread has finished, or
\* after two seconds, which is what a worker inside its ten-second sleep gives
join_returns(ps, i) ==
    \/ i = 0
    \/ ps[i].pc = "done"
    \/ ps[i].pc = "sleep"

StopJoin ==
    /\ fs.main = "join"
    /\ join_returns(procs, fs.auto_save_thread)
    /\ fs' = [fs EXCEPT !.main = "save"]
    /\ UNCHANGED <<collection, now, prev, last, procs>>
    /\ UNCHANGED chunkVars

\* lines 229-259: writes the final file, removes the temp file when it exists
\* and returns
StopSave ==
    /\ fs.main = "save"
    /\ fs' = [fs EXCEPT !.files = @ \ {fs.temp_file_path},
                        !.stopped = @ \cup {fs.auto_save_thread},
                        !.main = "idle"]
    /\ UNCHANGED <<collection, now, prev, last, procs>>
    /\ UNCHANGED chunkVars

\* the wall clock moves to the next second
ClockTick ==
    /\ now < MaxClock
    /\ now' = now + 1
    /\ UNCHANGED <<fs, collection, prev, last, procs>>
    /\ UNCHANGED chunkVars

NextRecorder ==
    \/ StartRecording
    \/ AudioCallback
    \/ StopRecording
    \/ StopJoin
    \/ StopSave
    \/ ClockTick
    \/ \E i \in DOMAIN procs : WorkerWhile(i)
    \/ \E i \in DOMAIN procs : WorkerWake(i)
    \/ \E i \in DOMAIN procs : WorkerSave(i)

SpecRecorder == RecorderInit /\ [][NextRecorder]_vars

-----------------------------------------------------------------------------
(* Properties of the recorder, checked under SpecRecorder *)

\* C30: at most one auto-save worker is inside its loop at any time, and an
\* auto-save write is made by the worker of the recording in progress, never
\* by the worker of a recording whose stop_recording has returned (so never
\* into a later recording's temp file nor after the temp file was removed)
C30_SingleWorker ==
    /\ Cardinality(alive(procs)) <= 1
    /\ last.op = "autosave" =>
          (last.of = last.current /\ last.of \notin last.stopped)

====
